---------------------------- MODULE Spec2Model ----------------------------
(***************************************************************************)
(* A model of the pattern scanner of GREPTILE-CLONE:                       *)
(*   src/code_analyzer.py           CodeAnalyzer (registry, analyze_file,  *)
(*                                  framework detection, confidence, main) *)
(*   src/code_analysis_patterns.py  SecurityPatternChecker,                *)
(*                                  LogicPatternChecker, analyze_code      *)
(*                                                                         *)
(* File content is a sequence of lexemes.  Every lexeme stands for one     *)
(* concrete piece of source text (Text below); the regular expressions of  *)
(* the source are modelled by what they match in those texts.  The texts   *)
(* are chosen so that no match of any pattern of the source spans two      *)
(* lexemes, except through the line-bounded lookaheads, which are modelled *)
(* (RestOfLineHas).  Offsets are character offsets into the concatenated   *)
(* text, as in Python.  Confidences are in units of 1/10000: every product *)
(* the code forms (0.95, 0.85, 0.75, 0.65, 0.5 times 0.5 times 0.3) is a   *)
(* whole number of those units, and multiplying a float by 0.5 is exact.   *)
(***************************************************************************)
EXTENDS Integers, Sequences, FiniteSets, TLC

VARIABLES
    security_patterns,   \* CodeAnalyzer.security_patterns (ordered dict)
    resource_patterns,   \* CodeAnalyzer.resource_patterns
    framework_patterns,  \* CodeAnalyzer.framework_patterns
    file_path,           \* the argument of a direct analyze_file call
    file,                \* the file at file_path: [status, content]
    framework,           \* the local 'framework' of that call, once assigned
    issues,              \* what analyze_file did: not called, returned, raised
    results,             \* what analyze_code did on the same content
    test_files,          \* main: the listing of test_samples, with each file
    idx,                 \* main: the number of files the loop has finished
    printed,             \* main: what the loop has printed, one entry per file
    calls                \* the calls of analyze_file on one analyzer, in order

vars == <<security_patterns, resource_patterns, framework_patterns,
          file_path, file, framework, issues, results, test_files, idx, printed,
          calls>>

registry == <<security_patterns, resource_patterns, framework_patterns>>

(***************************************************************************)
(* Bounds of the model.                                                    *)
(***************************************************************************)
\* The longest content, in lexemes.
MaxLen == 3
\* The longest listing main walks.
MaxFiles == 3
\* The longest content of a file of that listing, in lexemes.
BatchLen == 1
\* The most calls of analyze_file made on one analyzer.
MaxCalls == 3

(***************************************************************************)
(* Lexemes and their texts.                                                *)
(***************************************************************************)
Text(tok) ==
    CASE tok = "NL"             -> "\n"
      [] tok = "SECRET"         -> "password = \"x\";"
      [] tok = "SECRET_ENV"     -> "token = \"os.getenv\";"
      [] tok = "GETENV"         -> "os.getenv(\"K\");"
      [] tok = "MD5"            -> "md5(x);"
      [] tok = "OPEN"           -> "open(f);"
      [] tok = "WITHDRAW"       -> "withdraw(x);"
      [] tok = "IMPORT_REACT"   -> "import react;"
      [] tok = "IMPORT_EXPRESS" -> "import express;"
      [] tok = "IMPORT_DJANGO"  -> "import django;"
      [] tok = "IMPORT_FLASK"   -> "import flask;"
      [] tok = "SET_STATE"      -> "setCount(count + 1);"
      [] tok = "REQ_BODY"       -> "req.body.name; "
      [] tok = "TRY_BARE"       -> "try: pass\nexcept: pass;"
      [] tok = "TRY_TYPED"      -> "try: pass\nexcept ValueError: pass;"
      [] tok = "XSS"            -> "el.innerHTML = y;"
      [] tok = "TEXT_CONTENT"   -> "el.textContent = y;"

\* n characters that are not a newline.
Plain(n) == [k \in 1..n |-> "c"]

\* The characters of a lexeme's text, reduced to newline or not.
Chars(tok) ==
    CASE tok = "NL"             -> <<"\n">>
      [] tok = "SECRET"         -> Plain(15)
      [] tok = "SECRET_ENV"     -> Plain(20)
      [] tok = "GETENV"         -> Plain(15)
      [] tok = "MD5"            -> Plain(7)
      [] tok = "OPEN"           -> Plain(8)
      [] tok = "WITHDRAW"       -> Plain(12)
      [] tok = "IMPORT_REACT"   -> Plain(13)
      [] tok = "IMPORT_EXPRESS" -> Plain(15)
      [] tok = "IMPORT_DJANGO"  -> Plain(14)
      [] tok = "IMPORT_FLASK"   -> Plain(13)
      [] tok = "SET_STATE"      -> Plain(20)
      [] tok = "REQ_BODY"       -> Plain(15)
      [] tok = "TRY_BARE"       -> Plain(9) \o <<"\n">> \o Plain(13)
      [] tok = "TRY_TYPED"      -> Plain(9) \o <<"\n">> \o Plain(24)
      [] tok = "XSS"            -> Plain(17)
      [] tok = "TEXT_CONTENT"   -> Plain(19)

\* The lexemes of the files analyze_file is run on.
FileTokens ==
    {"NL", "SECRET", "SECRET_ENV", "GETENV", "MD5", "OPEN", "WITHDRAW",
     "IMPORT_REACT", "IMPORT_EXPRESS", "IMPORT_DJANGO", "IMPORT_FLASK",
     "SET_STATE", "REQ_BODY"}

\* The lexemes of the code analyze_code is run on.
CodeTokens ==
    {"NL", "SECRET", "GETENV", "OPEN", "REQ_BODY", "TRY_BARE", "TRY_TYPED"}

\* The lexemes of the files with two rules that have a safe pattern
\* (hardcoded_secrets, xss), a security rule without one, a resource rule
\* and a framework rule.
SuppressTokens ==
    {"NL", "SECRET", "GETENV", "XSS", "TEXT_CONTENT", "MD5", "OPEN",
     "IMPORT_REACT", "SET_STATE"}

RECURSIVE SeqsUpTo(_, _)
\* All sequences over S of length at most n.
SeqsUpTo(S, n) ==
    IF n = 0 THEN {<<>>}
    ELSE LET shorter == SeqsUpTo(S, n - 1)
         IN  shorter \cup {Append(s, x) : s \in {t \in shorter : Len(t) = n - 1}, x \in S}

RECURSIVE Flat(_)
\* The characters of a content, lexeme after lexeme.
Flat(content) ==
    IF content = <<>> THEN <<>>
    ELSE Chars(Head(content)) \o Flat(Tail(content))

\* The 0-based character offset at which lexeme i of content starts.
Offset(content, i) == Len(Flat(SubSeq(content, 1, i - 1)))

RECURSIVE Count(_, _, _, _)
\* str.count(ch, lo, hi): the occurrences of ch at the 0-based offsets lo..hi-1.
Count(chars, ch, lo, hi) ==
    IF lo >= hi \/ lo >= Len(chars) THEN 0
    ELSE (IF chars[lo + 1] = ch THEN 1 ELSE 0) + Count(chars, ch, lo + 1, hi)

(***************************************************************************)
(* The regular expressions, by what they match in the lexemes.             *)
(* A pattern is named P_<rule> (a rule's 'pattern'), S_<rule> (its         *)
(* 'safe_pattern'), F_<framework> (a framework signature) or H_<n> (a      *)
(* sub-pattern of _has_safe_pattern).                                      *)
(***************************************************************************)
\* The matches of pattern p that start inside lexeme tok, left to right:
\* the offset of the match in the lexeme and the matched text, group(0).
LexMatches(p, tok) ==
    CASE p = "P_hardcoded_secrets" /\ tok = "SECRET" ->
            <<[off |-> 0, group |-> "password = \"x\""]>>
      [] p = "P_hardcoded_secrets" /\ tok = "SECRET_ENV" ->
            <<[off |-> 0, group |-> "token = \"os.getenv\""]>>
      [] p = "S_hardcoded_secrets" /\ tok = "GETENV" ->
            <<[off |-> 0, group |-> "os.getenv("]>>
      [] p = "P_xss" /\ tok = "XSS" ->
            <<[off |-> 3, group |-> "innerHTML ="]>>
      [] p = "S_xss" /\ tok = "TEXT_CONTENT" ->
            <<[off |-> 3, group |-> "textContent"]>>
      [] p = "P_weak_crypto" /\ tok = "MD5" ->
            <<[off |-> 0, group |-> "md5("]>>
      [] p = "P_file_leaks" /\ tok = "OPEN" ->
            <<[off |-> 0, group |-> "open(f)"]>>
      [] p = "P_state_update" /\ tok = "SET_STATE" ->
            <<[off |-> 0, group |-> "setCount(count + 1)"]>>
      [] p = "P_no_validation" /\ tok = "REQ_BODY" ->
            <<[off |-> 0, group |-> "req.body.name;"]>>
      [] p = "F_react" /\ tok = "IMPORT_REACT" ->
            <<[off |-> 0, group |-> "import react"]>>
      [] p = "F_express" /\ tok = "IMPORT_EXPRESS" ->
            <<[off |-> 0, group |-> "import express"]>>
      [] p = "F_django" /\ tok = "IMPORT_DJANGO" ->
            <<[off |-> 0, group |-> "import django"]>>
      [] p = "F_flask" /\ tok = "IMPORT_FLASK" ->
            <<[off |-> 0, group |-> "import flask"]>>
      [] p = "C_hardcoded_secrets" /\ tok = "SECRET" ->
            <<[off |-> 0, group |-> "password = \"x\""]>>
      [] p = "C_hardcoded_secrets" /\ tok = "SECRET_ENV" ->
            <<[off |-> 0, group |-> "token = \"os.getenv\""]>>
      [] OTHER -> <<>>

\* The words a pattern's negative lookahead (?!.*?word) forbids in the
\* rest of the line after the match.
Lookahead(p) ==
    CASE p = "P_file_leaks"    -> {"with"}
      [] p = "P_memory_leaks"  -> {"limit", "max"}
      [] p = "P_no_validation" -> {"validate"}
      [] OTHER -> {}

\* The lookahead words in the first line of a lexeme's text.
WordsIn(tok) == IF tok = "WITHDRAW" THEN {"with"} ELSE {}

\* The text of the lexeme holds a newline.
HasNewline(tok) ==
    LET cs == Chars(tok)
    IN  \E k \in 1..Len(cs) : cs[k] = "\n"

RECURSIVE RestOfLineHas(_, _, _)
\* Whether one of words occurs in content after lexeme i and before the
\* next newline ('.' does not match a newline).
RestOfLineHas(content, i, words) ==
    IF i >= Len(content) THEN FALSE
    ELSE IF WordsIn(content[i + 1]) \cap words # {} THEN TRUE
    ELSE IF HasNewline(content[i + 1]) THEN FALSE
    ELSE RestOfLineHas(content, i + 1, words)

RECURSIVE FindIterFrom(_, _, _)
\* The matches that start in lexeme i or later: those of the lexeme's
\* text, unless the pattern's lookahead sees its word in the rest of the line.
FindIterFrom(p, content, i) ==
    IF i > Len(content) THEN <<>>
    ELSE LET ms   == LexMatches(p, content[i])
             here == IF ms # <<>> /\ RestOfLineHas(content, i, Lookahead(p))
                     THEN <<>> ELSE ms
             at   == Offset(content, i)
         IN  [k \in 1..Len(here) |->
                 [start |-> at + here[k].off, group |-> here[k].group]]
             \o FindIterFrom(p, content, i + 1)

\* re.finditer(p, content): the non-overlapping matches, left to right.
FindIter(p, content) == FindIterFrom(p, content, 1)

\* re.search(p, content) finds a match.
Search(p, content) == FindIter(p, content) # <<>>

\* re.search(p, proof) finds a match in a matched text (a proof).
SearchText(p, text) ==
    \/ p = "H_os_getenv" /\ text = "token = \"os.getenv\""
    \/ p = "H_os_getenv" /\ text = "os.getenv("

(***************************************************************************)
(* File paths: sequences of characters.                                    *)
(***************************************************************************)
UpperCase == <<"A","B","C","D","E","F","G","H","I","J","K","L","M",
               "N","O","P","Q","R","S","T","U","V","W","X","Y","Z">>
LowerCase == <<"a","b","c","d","e","f","g","h","i","j","k","l","m",
               "n","o","p","q","r","s","t","u","v","w","x","y","z">>

LowerChar(c) ==
    IF \E k \in 1..26 : UpperCase[k] = c
    THEN LowerCase[CHOOSE k \in 1..26 : UpperCase[k] = c]
    ELSE c

\* str.lower()
Lower(s) == [k \in 1..Len(s) |-> LowerChar(s[k])]

\* sub in s
Contains(s, sub) ==
    \E k \in 0..(Len(s) - Len(sub)) : SubSeq(s, k + 1, k + Len(sub)) = sub

PathApp  == <<"a","p","p",".","p","y">>
PathTest == <<"T","e","s","t","s",".","p","y">>
Paths == {PathApp, PathTest}

\* os.path.join('test_samples', name)
TestSamples == <<"t","e","s","t","_","s","a","m","p","l","e","s","/">>
JoinTestSamples(name) == TestSamples \o name

(***************************************************************************)
(* CodeAnalyzer.__init__: the rule registry.                               *)
(***************************************************************************)
SecurityPatterns ==
    << [name |-> "hardcoded_secrets", pattern |-> "P_hardcoded_secrets",
        safe_pattern |-> "S_hardcoded_secrets", severity |-> "Critical",
        description |-> "Hardcoded credentials in code",
        fix |-> "Use environment variables or secure vault"],
       [name |-> "sql_injection", pattern |-> "P_sql_injection",
        safe_pattern |-> "S_sql_injection", severity |-> "Critical",
        description |-> "SQL injection vulnerability",
        fix |-> "Use parameterized queries"],
       [name |-> "command_injection", pattern |-> "P_command_injection",
        safe_pattern |-> "None", severity |-> "Critical",
        description |-> "Command injection vulnerability",
        fix |-> "Use subprocess.run with args list"],
       [name |-> "xss", pattern |-> "P_xss",
        safe_pattern |-> "S_xss", severity |-> "Critical",
        description |-> "Cross-site scripting vulnerability",
        fix |-> "Use safe content handling methods"],
       [name |-> "insecure_deserialization", pattern |-> "P_insecure_deserialization",
        safe_pattern |-> "None", severity |-> "Critical",
        description |-> "Insecure deserialization",
        fix |-> "Use safe deserialization methods"],
       [name |-> "path_traversal", pattern |-> "P_path_traversal",
        safe_pattern |-> "None", severity |-> "Critical",
        description |-> "Path traversal vulnerability",
        fix |-> "Validate and sanitize file paths"],
       [name |-> "weak_crypto", pattern |-> "P_weak_crypto",
        safe_pattern |-> "None", severity |-> "Critical",
        description |-> "Weak cryptographic algorithm",
        fix |-> "Use strong cryptographic algorithms"] >>

ResourcePatterns ==
    << [name |-> "file_leaks", pattern |-> "P_file_leaks",
        severity |-> "High", description |-> "File resource leak",
        fix |-> "Use with statement"],
       [name |-> "memory_leaks", pattern |-> "P_memory_leaks",
        severity |-> "High", description |-> "Unbounded collection growth",
        fix |-> "Add size limit"] >>

ReactPatterns ==
    << [name |-> "hook_rules", pattern |-> "P_hook_rules",
        severity |-> "Critical", description |-> "Hook rules violation",
        fix |-> "Move hook to component top level"],
       [name |-> "effect_deps", pattern |-> "P_effect_deps",
        severity |-> "High", description |-> "Missing effect dependencies",
        fix |-> "Add required dependencies"],
       [name |-> "memory_leak", pattern |-> "P_memory_leak",
        severity |-> "High", description |-> "Effect missing cleanup",
        fix |-> "Return cleanup function from effect"],
       [name |-> "unsafe_html", pattern |-> "P_unsafe_html",
        severity |-> "Critical", description |-> "Unsafe HTML injection",
        fix |-> "Use safe content rendering methods"],
       [name |-> "state_update", pattern |-> "P_state_update",
        severity |-> "Medium", description |-> "State update using stale value",
        fix |-> "Use functional update form"] >>

ExpressPatterns ==
    << [name |-> "error_handling", pattern |-> "P_error_handling",
        severity |-> "High", description |-> "Error only logged, not handled",
        fix |-> "Properly handle or propagate error"],
       [name |-> "no_validation", pattern |-> "P_no_validation",
        severity |-> "High", description |-> "Missing input validation",
        fix |-> "Add input validation"],
       [name |-> "sync_code", pattern |-> "P_sync_code",
        severity |-> "High", description |-> "Sync function with async code",
        fix |-> "Add async keyword to function"] >>

FrameworkPatterns == [react |-> ReactPatterns, express |-> ExpressPatterns]


(***************************************************************************)
(* CodeAnalyzer._detect_framework                                          *)
(***************************************************************************)
\* The local dict 'frameworks', in its insertion order.
Frameworks ==
    << [name |-> "react",   pattern |-> "F_react"],
       [name |-> "express", pattern |-> "F_express"],
       [name |-> "django",  pattern |-> "F_django"],
       [name |-> "flask",   pattern |-> "F_flask"] >>

RECURSIVE DetectFrom(_, _)
\* The loop over frameworks.items() from entry k on: the first framework
\* whose signature is found, or None.
DetectFrom(content, k) ==
    IF k > Len(Frameworks) THEN "None"
    ELSE IF Search(Frameworks[k].pattern, content) THEN Frameworks[k].name
    ELSE DetectFrom(content, k + 1)

RECURSIVE DetectLastFrom(_, _)
\* A detector that keeps looking after a hit and answers the last one.
DetectLastFrom(content, k) ==
    IF k > Len(Frameworks) THEN "None"
    ELSE LET later == DetectLastFrom(content, k + 1)
         IN  IF later # "None" THEN later
             ELSE IF Search(Frameworks[k].pattern, content) THEN Frameworks[k].name
             ELSE "None"

DetectLast(content) == DetectLastFrom(content, 1)

_detect_framework(content) == DetectFrom(content, 1)

(***************************************************************************)
(* CodeAnalyzer._calculate_confidence and _has_safe_pattern                *)
(***************************************************************************)
\* A dict whose first key is misspelt, so that no secret finds its entry.
SafeSubPatternsMisnamed(type) ==
    CASE type = "hardcoded_secret" -> <<"H_os_getenv", "H_process_env", "H_config_get">>
      [] type = "sql_injection"    -> <<"H_parameterize", "H_cursor_execute">>
      [] OTHER -> <<>>

\* The local dict 'safe_patterns' of _has_safe_pattern.
SafeSubPatterns(type) ==
    CASE type = "hardcoded_secrets" -> <<"H_os_getenv", "H_process_env", "H_config_get">>
      [] type = "sql_injection"     -> <<"H_parameterize", "H_cursor_execute">>
      [] OTHER -> <<>>

_has_safe_pattern(issue) ==
    LET patterns == SafeSubPatterns(issue.type)
    IN  \E k \in 1..Len(patterns) : SearchText(patterns[k], issue.proof)

\* A test for test files that forgets .lower().
IsTestFileCaseSensitive(path) == Contains(path, <<"t","e","s","t">>)

\* 'test' in issue['file'].lower()
IsTestFile(path) == Contains(Lower(path), <<"t","e","s","t">>)

\* The base confidence of a severity, in 1/10000.
BaseConfidence(severity) ==
    CASE severity = "Critical" -> 9500
      [] severity = "High"     -> 8500
      [] severity = "Medium"   -> 7500
      [] severity = "Low"      -> 6500
      [] OTHER                 -> 5000

\* issue: [type, severity, proof, file]
_calculate_confidence(issue) ==
    LET c1 == BaseConfidence(issue.severity)
        c2 == IF IsTestFile(issue.file) THEN c1 \div 2 ELSE c1
        c3 == IF _has_safe_pattern(issue) THEN (c2 * 3) \div 10 ELSE c2
    IN  c3

(***************************************************************************)
(* CodeAnalyzer.analyze_file                                               *)
(***************************************************************************)
\* A line number that counts the newlines up to the end of the text.
LineOfWholeText(content, start) ==
    Count(Flat(content), "\n", 0, Len(Flat(content))) + 1

\* content.count('\n', 0, match.start()) + 1
LineOf(content, start) == Count(Flat(content), "\n", 0, start) + 1

\* The dict appended to issues for one match of one rule.
Finding(rule, m, content, path) ==
    [type        |-> rule.name,
     severity    |-> rule.severity,
     description |-> rule.description,
     line        |-> LineOf(content, m.start),
     proof       |-> m.group,
     fix         |-> rule.fix,
     confidence  |-> _calculate_confidence(
                        [type |-> rule.name, severity |-> rule.severity,
                         proof |-> m.group, file |-> path])]

\* A suppression that looks for the safe pattern only before the match.
SuppressedBefore(rule, content, m) ==
    /\ rule.safe_pattern # "None"
    /\ \E k \in 1..Len(FindIter(rule.safe_pattern, content)) :
           FindIter(rule.safe_pattern, content)[k].start < m.start

\* A suppression that is not the rule's own: the safe pattern of any
\* security rule, found in the content, suppresses every security rule.
SuppressedByAnyRule(rule, content, m) ==
    \E r \in 1..Len(SecurityPatterns) :
        /\ SecurityPatterns[r].safe_pattern # "None"
        /\ Search(SecurityPatterns[r].safe_pattern, content)

\* pattern.get('safe_pattern') and re.search(pattern['safe_pattern'], content)
Suppressed(rule, content, m) ==
    /\ rule.safe_pattern # "None"
    /\ Search(rule.safe_pattern, content)

RECURSIVE SecurityMatches(_, _, _, _)
\* The inner loop over the matches of one security rule, from match k on.
SecurityMatches(rule, content, path, k) ==
    LET ms == FindIter(rule.pattern, content)
    IN  IF k > Len(ms) THEN <<>>
        ELSE (IF Suppressed(rule, content, ms[k]) THEN <<>>
              ELSE <<Finding(rule, ms[k], content, path)>>)
             \o SecurityMatches(rule, content, path, k + 1)

\* An inner loop that keeps one finding per line: a match on the line of
\* an earlier match of the rule is merged into it.
RuleMatchesOnePerLine(rule, content, path) ==
    LET ms == FindIter(rule.pattern, content)
        First(k) == \A j \in 1..(k - 1) :
                        LineOf(content, ms[j].start) # LineOf(content, ms[k].start)
        kept == SelectSeq([k \in 1..Len(ms) |-> k], First)
    IN  [k \in 1..Len(kept) |-> Finding(rule, ms[kept[k]], content, path)]

\* The inner loop over the matches of one resource or framework rule.
RuleMatches(rule, content, path) ==
    LET ms == FindIter(rule.pattern, content)
    IN  [k \in 1..Len(ms) |-> Finding(rule, ms[k], content, path)]

RECURSIVE SecurityIssues(_, _, _, _)
\* The loop over security_patterns.items(), from rule r on.
SecurityIssues(rules, content, path, r) ==
    IF r > Len(rules) THEN <<>>
    ELSE SecurityMatches(rules[r], content, path, 1)
         \o SecurityIssues(rules, content, path, r + 1)

RECURSIVE RuleSetIssues(_, _, _, _)
\* The loop over the items of a resource or framework rule-set.
RuleSetIssues(rules, content, path, r) ==
    IF r > Len(rules) THEN <<>>
    ELSE RuleMatches(rules[r], content, path)
         \o RuleSetIssues(rules, content, path, r + 1)

\* A selection that falls back on the react rules.
FrameworkRulesOrReact(fp, fw) ==
    IF fw \in DOMAIN fp THEN fp[fw] ELSE fp["react"]

\* if framework and framework in self.framework_patterns: its rules
FrameworkRules(fp, fw) ==
    IF fw # "None" /\ fw \in DOMAIN fp THEN fp[fw] ELSE <<>>

\* The issues in the order the three loops append them.
RawIssues(sp, rp, fp, path, content) ==
    SecurityIssues(sp, content, path, 1)
    \o RuleSetIssues(rp, content, path, 1)
    \o RuleSetIssues(FrameworkRules(fp, _detect_framework(content)), content, path, 1)

\* {'Critical': 0, 'High': 1, 'Medium': 2, 'Low': 3}.get(severity, 4)
SeverityRank(severity) ==
    CASE severity = "Critical" -> 0
      [] severity = "High"     -> 1
      [] severity = "Medium"   -> 2
      [] severity = "Low"      -> 3
      [] OTHER                 -> 4

\* A key order that ranks the lower confidence first.
KeyLessAscending(a, b) ==
    \/ SeverityRank(a.severity) < SeverityRank(b.severity)
    \/ /\ SeverityRank(a.severity) = SeverityRank(b.severity)
       /\ a.confidence < b.confidence

\* The sort key (rank, -confidence) of a is less than that of b.
KeyLess(a, b) ==
    \/ SeverityRank(a.severity) < SeverityRank(b.severity)
    \/ /\ SeverityRank(a.severity) = SeverityRank(b.severity)
       /\ (0 - a.confidence) < (0 - b.confidence)

RECURSIVE InsertStable(_, _)
\* x put into a sorted sequence behind every element whose key is not greater.
InsertStable(sorted, x) ==
    IF sorted = <<>> THEN <<x>>
    ELSE IF KeyLess(x, Head(sorted)) THEN <<x>> \o sorted
    ELSE <<Head(sorted)>> \o InsertStable(Tail(sorted), x)

RECURSIVE SortedFrom(_, _)
SortedFrom(seq, acc) ==
    IF seq = <<>> THEN acc
    ELSE SortedFrom(Tail(seq), InsertStable(acc, Head(seq)))

\* sorted(issues, key=...): a stable sort.
Sorted(seq) == SortedFrom(seq, <<>>)

\* An analyze_file whose list 'issues' belongs to the analyzer and is not
\* emptied: it starts a call with what the call before it returned.
analyze_file_keeping_issues(sp, rp, fp, path, f) ==
    LET kept == IF calls # <<>> /\ calls[Len(calls)].result.kind = "return"
                THEN calls[Len(calls)].result.value ELSE <<>>
    IN  IF f.status # "ok" THEN [kind |-> "raise", value |-> f.status]
        ELSE [kind  |-> "return",
              value |-> Sorted(kept \o RawIssues(sp, rp, fp, path, f.content))]

\* analyze_file on the file f at path: open() raises, or the sorted issues.
analyze_file(sp, rp, fp, path, f) ==
    IF f.status # "ok" THEN [kind |-> "raise", value |-> f.status]
    ELSE [kind |-> "return", value |-> Sorted(RawIssues(sp, rp, fp, path, f.content))]

(***************************************************************************)
(* code_analysis_patterns.py: the parse tree of a code text.               *)
(***************************************************************************)
TryTokens == {"TRY_BARE", "TRY_TYPED"}

\* A parser that has no tree for a text without a statement.
ParsesSomeStatement(code) ==
    /\ code # <<>>
    /\ \A i \in 1..Len(code) :
          code[i] \in TryTokens => (i = 1 \/ code[i - 1] = "NL")

\* ast.parse(code) succeeds.  Every lexeme but a try statement is a simple
\* statement ending in ';', which may follow another on its line (also on
\* the line of an 'except ...: pass;'); a try statement is a compound
\* statement and must start its line.
Parses(code) ==
    \A i \in 1..Len(code) :
        code[i] \in TryTokens => (i = 1 \/ code[i - 1] = "NL")

\* The Attribute and ExceptHandler nodes of one lexeme: offset of the node
\* in the lexeme, depth below the statement, and whether a handler's type
\* is None.
LexNodes(tok) ==
    CASE tok = "GETENV"    -> <<[kind |-> "Attribute", off |-> 0, depth |-> 3, bare |-> FALSE]>>
      [] tok = "REQ_BODY"  -> <<[kind |-> "Attribute", off |-> 0, depth |-> 2, bare |-> FALSE],
                                [kind |-> "Attribute", off |-> 0, depth |-> 3, bare |-> FALSE]>>
      [] tok = "XSS"       -> <<[kind |-> "Attribute", off |-> 0, depth |-> 2, bare |-> FALSE]>>
      [] tok = "TEXT_CONTENT" ->
                              <<[kind |-> "Attribute", off |-> 0, depth |-> 2, bare |-> FALSE]>>
      [] tok = "TRY_BARE"  -> <<[kind |-> "ExceptHandler", off |-> 10, depth |-> 2, bare |-> TRUE]>>
      [] tok = "TRY_TYPED" -> <<[kind |-> "ExceptHandler", off |-> 10, depth |-> 2, bare |-> FALSE]>>
      [] OTHER -> <<>>

\* Lexeme i stands on the 'except' line of a try statement, in its body.
InHandler(code, i) ==
    \E j \in 1..(i - 1) :
        /\ code[j] \in TryTokens
        /\ \A k \in (j + 1)..(i - 1) : ~HasNewline(code[k])

RECURSIVE NodesFrom(_, _)
\* The nodes of the tree in source order, with lineno and depth.
NodesFrom(code, i) ==
    IF i > Len(code) THEN <<>>
    ELSE LET ns   == LexNodes(code[i])
             deep == IF InHandler(code, i) THEN 2 ELSE 0
         IN  [k \in 1..Len(ns) |->
                 [kind   |-> ns[k].kind,
                  bare   |-> ns[k].bare,
                  lineno |-> Count(Flat(code), "\n", 0, Offset(code, i) + ns[k].off) + 1,
                  depth  |-> ns[k].depth + deep]]
             \o NodesFrom(code, i + 1)

RECURSIVE WalkFrom(_, _)
\* The nodes at depth d, then the deeper ones.
WalkFrom(nodes, d) ==
    IF \A k \in 1..Len(nodes) : nodes[k].depth < d THEN <<>>
    ELSE LET AtDepth(n) == n.depth = d
         IN  SelectSeq(nodes, AtDepth) \o WalkFrom(nodes, d + 1)

\* ast.walk(tree): breadth first, so by depth and then in source order.
Walk(code) == WalkFrom(NodesFrom(code, 1), 1)

(***************************************************************************)
(* SecurityPatternChecker and LogicPatternChecker                          *)
(***************************************************************************)
\* One regex issue of the SecurityPatternChecker.
CodeIssue(sev, cat, type, desc, fix, code, m) ==
    [severity    |-> sev,
     category    |-> cat,
     type        |-> type,
     location    |-> <<"Line ", Count(Flat(code), "\n", 0, m.start) + 1>>,
     description |-> desc,
     proof       |-> m.group,
     fix         |-> fix]

RegexIssues(p, sev, cat, type, desc, fix, code) ==
    LET ms == FindIter(p, code)
    IN  [k \in 1..Len(ms) |-> CodeIssue(sev, cat, type, desc, fix, code, ms[k])]

check_credentials(code) ==
    RegexIssues("C_hardcoded_secrets", "Critical", "Security", "Hardcoded secrets",
                "Hardcoded credential found in code",
                "Use environment variables or secure secret storage", code)

check_injections(code) ==
    RegexIssues("C_sql_injection", "Critical", "Security", "SQL Injection",
                "Potential SQL injection through string formatting",
                "Use parameterized queries", code)
    \o RegexIssues("C_command_injection", "Critical", "Security", "Command Injection",
                "Potential command injection through string formatting",
                "Use subprocess.run with a list of arguments", code)

check_resources(code) ==
    RegexIssues("P_file_leaks", "High", "Code Quality", "Resource leak",
                "File opened without using context manager",
                "Use \"with open(...) as f:\" pattern", code)
    \o RegexIssues("C_infinite_loops", "High", "Logic", "Infinite loop",
                "Potential infinite loop without break condition",
                "Add proper exit condition", code)

\* The issue of one Attribute node (it has no 'proof').
NullPointerIssue(n) ==
    [severity    |-> "High",
     category    |-> "Logic",
     type        |-> "Null pointer",
     location    |-> <<"Line ", n.lineno>>,
     description |-> "Potential null pointer dereference",
     fix         |-> "Add null check before accessing attribute"]

\* The issue of one bare except clause.
BroadExceptIssue(n) ==
    [severity    |-> "Medium",
     category    |-> "Code Quality",
     type        |-> "Broad exception handling",
     location    |-> <<"Line ", n.lineno>>,
     description |-> "Using bare except clause",
     fix         |-> "Catch specific exceptions"]

\* check_null_pointers on a code that parses.
check_null_pointers(code) ==
    LET IsAttribute(n) == n.kind = "Attribute"
        ns == SelectSeq(Walk(code), IsAttribute)
    IN  [k \in 1..Len(ns) |-> NullPointerIssue(ns[k])]

\* A check that flags every except clause, with a type or without.
check_error_handling_any_type(code) ==
    LET IsHandler(n) == n.kind = "ExceptHandler"
        ns == SelectSeq(Walk(code), IsHandler)
    IN  [k \in 1..Len(ns) |-> BroadExceptIssue(ns[k])]

\* check_error_handling on a code that parses.
check_error_handling(code) ==
    LET IsBare(n) == n.kind = "ExceptHandler" /\ n.bare
        ns == SelectSeq(Walk(code), IsBare)
    IN  [k \in 1..Len(ns) |-> BroadExceptIssue(ns[k])]

\* analyze_code: ast.parse raises in check_null_pointers and nothing
\* catches it; otherwise the dict of the three lists.
analyze_code(code) ==
    IF ~Parses(code) THEN [kind |-> "raise", value |-> "SyntaxError"]
    ELSE [kind  |-> "return",
          value |-> [security_issues |-> check_credentials(code) \o check_injections(code),
                     resource_issues |-> check_resources(code),
                     logic_issues    |-> check_null_pointers(code)
                                         \o check_error_handling(code)]]

(***************************************************************************)
(* The files and the calls.                                                *)
(***************************************************************************)
\* What open() and read() can raise.
ReadErrors == {"FileNotFoundError", "PermissionError", "UnicodeDecodeError"}

NotCalled == [kind |-> "none", value |-> <<>>]

FilesOver(tokens, n) ==
    {[status |-> "ok", content |-> c] : c \in SeqsUpTo(tokens, n)}
    \cup {[status |-> e, content |-> <<>>] : e \in ReadErrors}

TypeOK ==
    /\ issues.kind \in {"none", "return", "raise"}
    /\ idx \in 0..Len(test_files)

Init ==
    /\ security_patterns = SecurityPatterns
    /\ resource_patterns = ResourcePatterns
    /\ framework_patterns = FrameworkPatterns
    /\ file_path \in Paths
    /\ file \in FilesOver(FileTokens, MaxLen)
    /\ framework = "unassigned"
    /\ issues = NotCalled
    /\ results = NotCalled
    /\ test_files = <<>>
    /\ idx = 0
    /\ printed = <<>>
    /\ calls = <<>>

\* A call analyzer.analyze_file(file_path).
AnalyzeFile ==
    /\ issues.kind = "none"
    /\ issues' = analyze_file(security_patterns, resource_patterns,
                              framework_patterns, file_path, file)
    /\ framework' = IF file.status = "ok" THEN _detect_framework(file.content)
                    ELSE framework
    /\ UNCHANGED <<registry, file_path, file, results, test_files, idx, printed, calls>>

\* A call analyze_code(code) with the text of the same file.
AnalyzeCode ==
    /\ file.status = "ok"
    /\ results.kind = "none"
    /\ results' = analyze_code(file.content)
    /\ UNCHANGED <<registry, file_path, file, framework, issues, test_files, idx, printed,
                   calls>>

Next == AnalyzeFile

\* analyze_file called once on every file over FileTokens.
Spec == Init /\ [][Next]_vars

InitCode ==
    /\ security_patterns = SecurityPatterns
    /\ resource_patterns = ResourcePatterns
    /\ framework_patterns = FrameworkPatterns
    /\ file_path \in Paths
    /\ file \in FilesOver(CodeTokens, MaxLen)
    /\ framework = "unassigned"
    /\ issues = NotCalled
    /\ results = NotCalled
    /\ test_files = <<>>
    /\ idx = 0
    /\ printed = <<>>
    /\ calls = <<>>

NextCode == AnalyzeFile \/ AnalyzeCode

\* analyze_file and analyze_code called on every text over CodeTokens.
SpecCode == InitCode /\ [][NextCode]_vars

InitSuppress ==
    /\ security_patterns = SecurityPatterns
    /\ resource_patterns = ResourcePatterns
    /\ framework_patterns = FrameworkPatterns
    /\ file_path \in Paths
    /\ file \in FilesOver(SuppressTokens, MaxLen)
    /\ framework = "unassigned"
    /\ issues = NotCalled
    /\ results = NotCalled
    /\ test_files = <<>>
    /\ idx = 0
    /\ printed = <<>>
    /\ calls = <<>>

NextSuppress == AnalyzeFile

\* analyze_file called once on every file over SuppressTokens.
SpecSuppress == InitSuppress /\ [][NextSuppress]_vars

(***************************************************************************)
(* main: the batch run over the files of test_samples.                     *)
(***************************************************************************)
\* The lexemes of the files of a listing.
BatchTokens == {"SECRET", "OPEN"}

\* The names os.listdir gives, in its order.
FileNames ==
    << <<"a",".","p","y">>, <<"b",".","p","y">>, <<"c",".","j","s">>,
       <<"d",".","p","y">>, <<"e",".","t","s">>, <<"f",".","p","y">> >>

\* f"{confidence:.2f}" in hundredths: the float nearest to the product,
\* rounded to two places (0.475 is 0.47499..., 0.375 is exact and a tie).
Format2(c) ==
    CASE c = 2850 -> 28
      [] c = 4750 -> 47
      [] c = 2550 -> 26
      [] c = 4250 -> 42
      [] c = 2250 -> 22
      [] c = 3750 -> 38
      [] c = 1950 -> 20
      [] c = 3250 -> 33
      [] c = 750  -> 7
      [] OTHER    -> (c + 50) \div 100

\* The four lines main prints for one issue.
PrintIssue(issue) ==
    <<issue.severity, Format2(issue.confidence), issue.type,
      issue.line, issue.description, issue.proof, issue.fix>>

\* What one pass of the loop body prints for entry e of the listing.
Report(sp, rp, fp, e) ==
    LET path == JoinTestSamples(e.name)
        r    == analyze_file(sp, rp, fp, path, e.file)
    IN  IF r.kind = "raise"
        THEN [file |-> e.name, kind |-> "error", lines |-> <<r.value, path>>]
        ELSE IF r.value = <<>>
        THEN [file |-> e.name, kind |-> "no_issues", lines |-> <<>>]
        ELSE [file |-> e.name, kind |-> "issues",
              lines |-> [k \in 1..Len(r.value) |-> PrintIssue(r.value[k])]]

\* A handler that lets the exception end the run: no file is left.
AbortAfterError(i, n) == n

\* except Exception: print the error; the loop goes on with the next file.
AfterError(i, n) == i + 1

InitBatch ==
    /\ security_patterns = SecurityPatterns
    /\ resource_patterns = ResourcePatterns
    /\ framework_patterns = FrameworkPatterns
    /\ file_path = PathApp
    /\ file = [status |-> "ok", content |-> <<>>]
    /\ framework = "unassigned"
    /\ issues = NotCalled
    /\ results = NotCalled
    /\ \E n \in 0..MaxFiles :
          \E fs \in [1..n -> FilesOver(BatchTokens, BatchLen)] :
             test_files = [k \in 1..n |-> [name |-> FileNames[k], file |-> fs[k]]]
    /\ idx = 0
    /\ printed = <<>>
    /\ calls = <<>>

\* One pass of the loop of main over test_files.
MainLoop ==
    /\ idx < Len(test_files)
    /\ LET rep == Report(security_patterns, resource_patterns,
                         framework_patterns, test_files[idx + 1])
       IN  /\ printed' = Append(printed, rep)
           /\ idx' = IF rep.kind = "error"
                     THEN AfterError(idx, Len(test_files))
                     ELSE idx + 1
    /\ UNCHANGED <<registry, file_path, file, framework, issues, results, test_files,
                   calls>>

NextBatch == MainLoop

\* main run on every listing of at most MaxFiles files over BatchTokens.
SpecBatch == InitBatch /\ [][NextBatch]_vars

(***************************************************************************)
(* One analyzer, many calls: analyze_file on one file after another, the   *)
(* same file any number of times.                                          *)
(***************************************************************************)
\* The files the calls are made on.
RepeatFiles == FilesOver(BatchTokens, BatchLen)

InitRepeat ==
    /\ security_patterns = SecurityPatterns
    /\ resource_patterns = ResourcePatterns
    /\ framework_patterns = FrameworkPatterns
    /\ file_path = PathApp
    /\ file = [status |-> "ok", content |-> <<>>]
    /\ framework = "unassigned"
    /\ issues = NotCalled
    /\ results = NotCalled
    /\ test_files = <<>>
    /\ idx = 0
    /\ printed = <<>>
    /\ calls = <<>>

\* One more call analyzer.analyze_file(path), on any file at any path.  The
\* method assigns to locals only (content, issues, file_type, framework)
\* and reads the three tables: the analyzer is as it was.
AnalyzeAnyFile ==
    /\ Len(calls) < MaxCalls
    /\ \E path \in Paths, f \in RepeatFiles :
          calls' = Append(calls,
                     [path   |-> path,
                      file   |-> f,
                      result |-> analyze_file(security_patterns, resource_patterns,
                                              framework_patterns, path, f)])
    /\ UNCHANGED <<registry, file_path, file, framework, issues, results,
                   test_files, idx, printed>>

NextRepeat == AnalyzeAnyFile

\* Up to MaxCalls calls on one analyzer, in every order.
SpecRepeat == InitRepeat /\ [][NextRepeat]_vars

(***************************************************************************)
(* The claims.  What a claim needs beyond the model is written here in the *)
(* claim's own words, not with the operators of the model.                 *)
(***************************************************************************)
Returned == issues.kind = "return"

\* Every rule of the registry; the names are unique across the rule-sets.
AllRules ==
    security_patterns \o resource_patterns
    \o framework_patterns["react"] \o framework_patterns["express"]

RuleNamed(type) ==
    AllRules[CHOOSE r \in 1..Len(AllRules) : AllRules[r].name = type]

\* The positions of seq whose element has the type.
OfType(seq, type) == {k \in 1..Len(seq) : seq[k].type = type}

\* The newline characters strictly before the 0-based offset start.
NewlinesBefore(content, start) ==
    LET text == Flat(content)
    IN  Cardinality({j \in 1..start : text[j] = "\n"})

\* Some lexeme of the content is tok.
Has(content, tok) == \E i \in 1..Len(content) : content[i] = tok

\* C1: every finding of analyze_file is reported at the number of newline
\* characters before the start of its match, plus one: the findings of one
\* type, proof and line are no more than the matches of that rule with
\* that text that are preceded by line - 1 newlines.
C1_LineIsNewlinesBeforePlusOne ==
    Returned =>
        \A k \in 1..Len(issues.value) :
            LET f    == issues.value[k]
                ms   == FindIter(RuleNamed(f.type).pattern, file.content)
                same == {j \in OfType(issues.value, f.type) :
                            /\ issues.value[j].proof = f.proof
                            /\ issues.value[j].line = f.line}
                from == {j \in 1..Len(ms) :
                            /\ ms[j].group = f.proof
                            /\ NewlinesBefore(file.content, ms[j].start) + 1 = f.line}
            IN  Cardinality(same) <= Cardinality(from)

\* A secret after two newlines is reported at line 3.
C1_Witness ==
    /\ Returned
    /\ file.content = <<"NL", "NL", "SECRET">>
    /\ \E k \in 1..Len(issues.value) :
          issues.value[k].type = "hardcoded_secrets" /\ issues.value[k].line = 3

\* The safe pattern of a security rule occurs in some lexeme of the content.
SafeOccurs(rule, content) ==
    \E i \in 1..Len(content) : LexMatches(rule.safe_pattern, content[i]) # <<>>

\* C2: for every rule with a safe pattern, the file has no finding of the
\* rule when the safe pattern occurs anywhere in it, and one finding per
\* occurrence of the match pattern when it occurs nowhere.
C2_FileWideSuppression ==
    Returned =>
        \A r \in 1..Len(security_patterns) :
            LET rule == security_patterns[r]
                n    == Cardinality(OfType(issues.value, rule.name))
            IN  rule.safe_pattern # "None" =>
                    IF SafeOccurs(rule, file.content)
                    THEN n = 0
                    ELSE n = Len(FindIter(rule.pattern, file.content))

\* Two secrets, the safe call after them, and no finding of the rule.
C2_Witness ==
    /\ Returned
    /\ file.content = <<"SECRET", "SECRET_ENV", "GETENV">>
    /\ OfType(issues.value, "hardcoded_secrets") = {}

\* The severity rank the claim states.
ClaimRank(severity) ==
    CASE severity = "Critical" -> 0
      [] severity = "High"     -> 1
      [] severity = "Medium"   -> 2
      [] severity = "Low"      -> 3
      [] OTHER                 -> 4

\* a comes strictly before b: a lower rank, or the same and more confidence.
ClaimBefore(a, b) ==
    \/ ClaimRank(a.severity) < ClaimRank(b.severity)
    \/ ClaimRank(a.severity) = ClaimRank(b.severity) /\ a.confidence > b.confidence

\* Where the stable order puts raw[i]: behind everything that comes
\* strictly before it and behind the earlier findings that tie with it.
ClaimPosition(raw, i) ==
    1 + Cardinality({j \in 1..Len(raw) : ClaimBefore(raw[j], raw[i])})
      + Cardinality({j \in 1..(i - 1) :
                        ~ClaimBefore(raw[j], raw[i]) /\ ~ClaimBefore(raw[i], raw[j])})

\* The example of the spec: severities and confidences only.
SortExample ==
    << [severity |-> "Medium",   confidence |-> 5000],
       [severity |-> "Critical", confidence |-> 9000],
       [severity |-> "High",     confidence |-> 5000],
       [severity |-> "Critical", confidence |-> 9500] >>

\* C3: the list analyze_file returns is the raw findings (security, then
\* resource, then framework rules; a rule's matches left to right) ordered
\* by ascending severity rank, then descending confidence, ties in their
\* discovery order; the spec's example comes out as it says.
C3_StableSeverityConfidenceOrder ==
    /\ Returned =>
          LET raw == RawIssues(security_patterns, resource_patterns,
                               framework_patterns, file_path, file.content)
          IN  /\ Len(issues.value) = Len(raw)
              /\ \A i \in 1..Len(raw) : issues.value[ClaimPosition(raw, i)] = raw[i]
    /\ Sorted(SortExample) =
          << SortExample[4], SortExample[2], SortExample[3], SortExample[1] >>

\* A less confident secret found first, then two findings that tie: the
\* sort moves the first behind the tie and keeps the tie's order.
C3_Witness ==
    /\ Returned
    /\ file.content = <<"SECRET_ENV", "MD5", "SECRET">>
    /\ Len(issues.value) = 3
    /\ issues.value[1].type = "hardcoded_secrets"
    /\ issues.value[2].type = "weak_crypto"
    /\ issues.value[1].confidence = issues.value[2].confidence
    /\ issues.value[3].proof = "token = \"os.getenv\""

\* The base of a severity, in hundredths.
ClaimBase(severity) ==
    CASE severity = "Critical" -> 95
      [] severity = "High"     -> 85
      [] severity = "Medium"   -> 75
      [] severity = "Low"      -> 65
      [] OTHER                 -> 50

\* The path contains t, e, s, t in a row, in any letter case.
ClaimIsTestPath(path) ==
    \E k \in 1..(Len(path) - 3) :
        /\ path[k] \in {"t", "T"}     /\ path[k + 1] \in {"e", "E"}
        /\ path[k + 2] \in {"s", "S"} /\ path[k + 3] \in {"t", "T"}

\* The matched text of a secret or SQL finding holds a safe sub-pattern.
ClaimProofIsSafe(f) ==
    \/ /\ f.type = "hardcoded_secrets"
       /\ \E h \in {"H_os_getenv", "H_process_env", "H_config_get"} :
             SearchText(h, f.proof)
    \/ /\ f.type = "sql_injection"
       /\ \E h \in {"H_parameterize", "H_cursor_execute"} : SearchText(h, f.proof)

\* C4: the confidence of every finding is base(severity) x t x s, t being
\* 0.5 for a path containing 'test' in any case and s being 0.3 when the
\* proof of a secret or SQL finding holds a safe sub-pattern (here in
\* 1/10000: hundredths x tenths x tenths), and lies in [0, 0.95].
C4_ConfidenceIsProductOfFactors ==
    Returned =>
        \A k \in 1..Len(issues.value) :
            LET f == issues.value[k]
                t == IF ClaimIsTestPath(file_path) THEN 5 ELSE 10
                s == IF ClaimProofIsSafe(f) THEN 3 ELSE 10
            IN  /\ f.confidence = ClaimBase(f.severity) * t * s
                /\ f.confidence >= 0
                /\ f.confidence <= 9500

\* A secret whose text holds os.getenv, in a test file: 0.95 x 0.5 x 0.3.
C4_Witness ==
    /\ Returned
    /\ ClaimIsTestPath(file_path)
    /\ \E k \in 1..Len(issues.value) :
          /\ issues.value[k].proof = "token = \"os.getenv\""
          /\ issues.value[k].confidence = 1425

\* C5: the findings of a file under a path containing 'test' (in any case)
\* are those of the same file under a path that does not, one for one, with
\* exactly half the confidence; none is dropped.
C5_TestPathHalvesConfidence ==
    (Returned /\ ClaimIsTestPath(file_path)) =>
        \A other \in {p \in Paths : ~ClaimIsTestPath(p)} :
            LET there == analyze_file(security_patterns, resource_patterns,
                                      framework_patterns, other, file).value
            IN  /\ Len(there) = Len(issues.value)
                /\ \A k \in 1..Len(there) :
                      /\ 2 * issues.value[k].confidence = there[k].confidence
                      /\ [issues.value[k] EXCEPT !.confidence = 0]
                            = [there[k] EXCEPT !.confidence = 0]

\* A file with findings of two severities, analysed under a test path.
C5_Witness ==
    /\ Returned
    /\ ClaimIsTestPath(file_path)
    /\ \E k \in 1..Len(issues.value) : issues.value[k].confidence = 4750
    /\ \E k \in 1..Len(issues.value) : issues.value[k].confidence = 4250

\* The priority order of the detector and the lexeme of each signature.
Priority == <<"react", "express", "django", "flask">>
SignatureToken ==
    [react |-> "IMPORT_REACT", express |-> "IMPORT_EXPRESS",
     django |-> "IMPORT_DJANGO", flask |-> "IMPORT_FLASK"]

\* C6: the detector answers the first framework, in the order react,
\* express, django, flask, whose signature occurs in the content, and no
\* framework when none occurs; it answers one value.
C6_FirstFrameworkInPriorityOrder ==
    Returned =>
        LET hits == {k \in 1..Len(Priority) :
                        Has(file.content, SignatureToken[Priority[k]])}
        IN  IF hits = {} THEN framework = "None"
            ELSE \E k \in hits :
                    /\ \A j \in hits : k <= j
                    /\ framework = Priority[k]

\* Three signatures in the reverse of the priority order: react wins.
C6_Witness ==
    /\ Returned
    /\ file.content = <<"IMPORT_FLASK", "IMPORT_EXPRESS", "IMPORT_REACT">>
    /\ framework = "react"

\* The names of the rules of a rule-set.
RuleNames(rules) == {rules[r].name : r \in 1..Len(rules)}

\* C7: the security and resource rules are applied to every file whatever
\* framework is detected (every match of a resource rule, and of a security
\* rule whose safe pattern does not occur, is a finding), and a finding of
\* a framework's rule-set exists only when the detector answered that
\* framework; with no framework or one without a rule-set there is none.
C7_RuleSetSelection ==
    Returned =>
        /\ \A r \in 1..Len(resource_patterns) :
              Cardinality(OfType(issues.value, resource_patterns[r].name))
                 = Len(FindIter(resource_patterns[r].pattern, file.content))
        /\ \A r \in 1..Len(security_patterns) :
              LET rule == security_patterns[r]
              IN  (rule.safe_pattern = "None" \/ ~SafeOccurs(rule, file.content)) =>
                     Cardinality(OfType(issues.value, rule.name))
                        = Len(FindIter(rule.pattern, file.content))
        /\ \A fw \in DOMAIN framework_patterns :
              \A k \in 1..Len(issues.value) :
                 issues.value[k].type \in RuleNames(framework_patterns[fw]) =>
                    framework = fw
        /\ framework \notin DOMAIN framework_patterns =>
              \A fw \in DOMAIN framework_patterns :
                 \A k \in 1..Len(issues.value) :
                    issues.value[k].type \notin RuleNames(framework_patterns[fw])

\* django is detected, which has no rule-set: the express and react
\* matches of the file give no finding, the open() still does.
C7_Witness ==
    /\ Returned
    /\ file.content = <<"IMPORT_DJANGO", "REQ_BODY", "OPEN">>
    /\ framework = "django"
    /\ Len(issues.value) = 1
    /\ issues.value[1].type = "file_leaks"

\* The regex findings analyze_code has for a code, parse or no parse.
RegexFindings(code) ==
    check_credentials(code) \o check_injections(code) \o check_resources(code)

\* C8: when the parse of the structural checker fails the analysis does
\* not: it returns, without structural findings and with the regex
\* findings of the code.
C8_ParseFailureKeepsRegexFindings ==
    (results.kind # "none" /\ ~Parses(file.content)) =>
        /\ results.kind = "return"
        /\ results.value.logic_issues = <<>>
        /\ results.value.security_issues \o results.value.resource_issues
              = RegexFindings(file.content)

\* The reports of the files of a listing that could be read, in order.
ReportsOfReadable(listing) ==
    LET Readable(e) == e.file.status = "ok"
        ok == SelectSeq(listing, Readable)
    IN  [k \in 1..Len(ok) |->
            Report(security_patterns, resource_patterns, framework_patterns, ok[k])]

\* C9: in a batch run every file the loop has passed has its own report,
\* an error exactly for a file that could not be read, and the reports of
\* the other files are those of the run over the listing without the
\* failing files; a failure stops nothing, the next file is the next one.
C9_BatchContinuesAfterFailure ==
    /\ Len(printed) = idx
    /\ \A k \in 1..Len(printed) :
          /\ printed[k].file = test_files[k].name
          /\ printed[k].kind = "error" <=> test_files[k].file.status # "ok"
    /\ LET NoError(r) == r.kind # "error"
       IN  SelectSeq(printed, NoError) = ReportsOfReadable(SubSeq(test_files, 1, idx))

\* A run that is over: the first file could not be read, the second was
\* reported with an issue, the third could not be read either.
C9_Witness ==
    /\ Len(test_files) = 3
    /\ idx = 3
    /\ test_files[1].file.status = "PermissionError"
    /\ test_files[3].file.status = "UnicodeDecodeError"
    /\ Len(printed) = 3
    /\ printed[2].kind = "issues"

\* The findings of the structural checker for a code that parses.
StructuralFindings(code) == check_null_pointers(code) \o check_error_handling(code)

\* C10: the result of analyze_file holds every finding of the structural
\* checker for the same content, with a confidence.
C10_StructuralFindingsInResult ==
    (Returned /\ Parses(file.content)) =>
        \A k \in 1..Len(StructuralFindings(file.content)) :
            LET s == StructuralFindings(file.content)[k]
            IN  \E j \in 1..Len(issues.value) :
                   /\ issues.value[j].severity = s.severity
                   /\ issues.value[j].description = s.description
                   /\ <<"Line ", issues.value[j].line>> = s.location
                   /\ issues.value[j].confidence \in 0..9500

\* The rules analyze_file applies to the file and does not suppress: the
\* security rules whose safe pattern does not occur, the resource rules and
\* the rules of the detected framework.
AppliedRules ==
    LET NotSuppressed(rule) ==
            rule.safe_pattern = "None" \/ ~SafeOccurs(rule, file.content)
    IN  SelectSeq(security_patterns, NotSuppressed)
        \o resource_patterns
        \o (IF framework \in DOMAIN framework_patterns
            THEN framework_patterns[framework] ELSE <<>>)

\* C11: findings are never merged: for every rule that is applied and not
\* suppressed the result has as many findings of the rule as the content
\* has occurrences of its pattern, and for every occurrence as many
\* findings with its matched text at its line as there are occurrences
\* with that text on that line.
C11_OneFindingPerOccurrence ==
    Returned =>
        LET rules == AppliedRules
        IN  \A r \in 1..Len(rules) :
                LET ms   == FindIter(rules[r].pattern, file.content)
                    mine == OfType(issues.value, rules[r].name)
                    at   == [j \in 1..Len(ms) |->
                                NewlinesBefore(file.content, ms[j].start) + 1]
                IN  /\ Cardinality(mine) = Len(ms)
                    /\ \A j \in 1..Len(ms) :
                          Cardinality({k \in mine :
                                         /\ issues.value[k].proof = ms[j].group
                                         /\ issues.value[k].line = at[j]})
                          = Cardinality({i \in 1..Len(ms) :
                                         /\ ms[i].group = ms[j].group
                                         /\ at[i] = at[j]})

\* A secret and two open() calls on one line: the two findings of
\* file_leaks are alike in every field and both are in the result.
C11_Witness ==
    /\ Returned
    /\ file.content = <<"SECRET", "OPEN", "OPEN">>
    /\ Len(issues.value) = 3
    /\ OfType(issues.value, "file_leaks") = {2, 3}
    /\ issues.value[2] = issues.value[3]
    /\ issues.value[2].proof = "open(f)"

C13_EmptyContentEmptyResult ==
    (file.status = "ok" /\ file.content = <<>>) =>
        /\ issues.kind # "none" => issues = [kind |-> "return", value |-> <<>>]
        /\ results.kind # "none" =>
              /\ results.kind = "return"
              /\ results.value.security_issues = <<>>
              /\ results.value.resource_issues = <<>>
              /\ results.value.logic_issues = <<>>

\* Both analyses have run on the empty content and have returned.
C13_Witness ==
    /\ file.status = "ok"
    /\ file.content = <<>>
    /\ issues.kind = "return"
    /\ results.kind = "return"

\* The attribute accesses written in a lexeme: os.getenv is one,
\* req.body.name is two (req.body, and .name of it).
ClaimAttributes(tok) ==
    CASE tok = "GETENV"   -> 1
      [] tok = "REQ_BODY" -> 2
      [] OTHER            -> 0

\* The attribute accesses of a code: lexeme and number within the lexeme.
AttributeSites(code) ==
    {s \in (1..Len(code)) \X (1..2) : s[2] <= ClaimAttributes(code[s[1]])}

\* The line on which lexeme i starts.
LineOfLexeme(code, i) == NewlinesBefore(code, Offset(code, i)) + 1

\* The lexemes that are a try statement with a bare except; the except
\* clause is on the line after the one the statement starts on.
BareHandlers(code) == {i \in 1..Len(code) : code[i] = "TRY_BARE"}

\* The positions of seq whose element is at the line.
AtLine(seq, line) == {k \in 1..Len(seq) : seq[k].location = <<"Line ", line>>}

OwnLexeme(rule, tok) ==
    \/ LexMatches(rule.pattern, tok) # <<>>
    \/ LexMatches(rule.safe_pattern, tok) # <<>>

\* The content with the occurrences of the rule's pattern and of its safe
\* pattern left out.  No such lexeme holds a newline or a lookahead word,
\* so the lines and the matches of the other rules are what they were.
Without(content, rule) ==
    LET Foreign(tok) == ~OwnLexeme(rule, tok)
    IN  SelectSeq(content, Foreign)

\* The elements of seq that are not of the type, in their order.
NotOfType(seq, type) ==
    LET Other(f) == f.type # type
    IN  SelectSeq(seq, Other)

\* The rules with no safe pattern: the security rules without one, the
\* resource rules and the rules of the detected framework.
RulesWithoutSafePattern ==
    LET NoSafe(rule) == rule.safe_pattern = "None"
    IN  SelectSeq(security_patterns, NoSafe)
        \o resource_patterns
        \o (IF framework \in DOMAIN framework_patterns
            THEN framework_patterns[framework] ELSE <<>>)

\* C15: for every rule R with a safe pattern, the findings of the other
\* rules, in their order, are the findings of the same file without the
\* occurrences of R's pattern and safe pattern, whether R is suppressed or
\* not; and a rule without a safe pattern has a finding for every match.
C15_SuppressionIsLocalToRule ==
    Returned =>
        /\ \A r \in 1..Len(security_patterns) :
              LET rule == security_patterns[r]
                  rest == [status  |-> "ok",
                           content |-> Without(file.content, rule)]
              IN  rule.safe_pattern # "None" =>
                     NotOfType(issues.value, rule.name)
                        = analyze_file(security_patterns, resource_patterns,
                                       framework_patterns, file_path, rest).value
        /\ \A r \in 1..Len(RulesWithoutSafePattern) :
              Cardinality(OfType(issues.value, RulesWithoutSafePattern[r].name))
                 = Len(FindIter(RulesWithoutSafePattern[r].pattern, file.content))

\* The safe pattern of hardcoded_secrets occurs, with a secret and an
\* innerHTML assignment: the secret is suppressed, the xss finding, of a
\* rule with another safe pattern, is there.
C15_Witness ==
    /\ Returned
    /\ Has(file.content, "SECRET")
    /\ Has(file.content, "GETENV")
    /\ Has(file.content, "XSS")
    /\ Len(issues.value) = 1
    /\ issues.value[1].type = "xss"

=============================================================================
